---- MODULE Spec2Model ----
(***************************************************************************)
(* Model of libcontainerd/container_windows.go: container.start() and the  *)
(* waitExit monitor goroutine with its restart continuation.               *)
(*                                                                         *)
(* One container identity (containerID / friendlyName) goes through up to  *)
(* MaxLifecycles lifecycle instances; every client.Create makes a fresh    *)
(* container object and runs start() on it.  Every statement of start()    *)
(* and waitExit() that touches the host (hcsshim), the backend, the        *)
(* registry or memory shared between goroutines is one step.               *)
(***************************************************************************)
EXTENDS Integers, Sequences, FiniteSets, TLC

\* ---------------------------------------------------------------- bounds
MaxRestarts   == 1      \* restarts the restart manager grants before it gives up
MaxExecs      == 1      \* exec'd sub-processes that get a waitExit monitor
MaxOptions    == 1      \* length of the CreateOption list
MaxExitCode   == 1      \* exit codes reported by the host are 0..MaxExitCode

\* every granted restart can create one more container object for the container id
MaxLifecycles == MaxRestarts + 1
Lifecycles == 1..MaxLifecycles
Execs      == 1..MaxExecs
ExitCodes  == 0..MaxExitCode

\* A monitor is one run of waitExit.  Monitor i (i in Lifecycles) is the one
\* start() launches for the init process of lifecycle i; the others are the
\* monitors of exec'd processes.
InitMon(i) == i
ExecMon(j) == MaxLifecycles + j
Monitors   == 1..(MaxLifecycles + MaxExecs)

\* ------------------------------------------------------------- constants
ContainerID      == "c1"
FriendlyName     == "c1"
InitFriendlyName == "init"
ExecFriendlyName == "exec"
OciSpec          == "spec"      \* the container's Spec, an opaque value

StateStart       == "start"
StateExit        == "exit"
StateExitProcess == "exit-process"
StateRestart     == "restart"

\* hcsshim.TimeoutInfinite is 0xFFFFFFFF; written here as the same 32 bits
\* read as a signed integer.
TimeoutInfinite == -1

\* timeouts (milliseconds) as the code computes them
ServicingShutdownTimeout  == 5 * 60 * 1000
ServicingTerminateTimeout == 1 * 60 * 1000
WaitExitShutdownTimeout   == 5 * 60 * 1000
NoTimeout                 == "none" \* calls that take no timeout argument

\* CreateOption values: a ServicingOption with IsServicing true or false, or
\* the option that installs a restart manager.
Options == {"ServicingTrue", "ServicingFalse", "RestartManager"}

RECURSIVE SeqsUpTo(_, _)
SeqsUpTo(S, n) ==
  IF n = 0 THEN {<<>>}
  ELSE LET shorter == SeqsUpTo(S, n - 1)
       IN  shorter \cup {Append(s, x) : s \in {t \in shorter : Len(t) = n - 1}, x \in S}

OptionLists == SeqsUpTo(Options, MaxOptions)

\* errors returned by hcsshim.ShutdownComputeSystem in waitExit:
\*   "nonHcs"      an error that is not a *hcsshim.HcsError
\*   the others    a *hcsshim.HcsError with that Err
ShutdownErrors ==
  {"nonHcs", "ERROR_SHUTDOWN_IN_PROGRESS", "ErrorBadPathname",
   "ERROR_PATH_NOT_FOUND", "otherHcs"}

VARIABLES
  ctr,        \* ctr[i]: the container object of lifecycle i
  created,    \* number of container objects constructed so far
  registry,   \* the client's containers map: 0 (absent) or the lifecycle registered
  spc,        \* spc[i]: position of start() of lifecycle i
  sret,       \* sret[i]: pending/returned error of start() of lifecycle i
  mon,        \* mon[m]: locals and position of waitExit run m
  si,         \* si[m]: the StateInfo variable of waitExit run m (captured by the closure)
  cpc,        \* cpc[i]: position of the restart goroutine spawned by waitExit of lifecycle i
  cerr,       \* cerr[i]: what the restart goroutine received from the wait channel
  wait,       \* wait[i]: the restart manager's completion channel of lifecycle i
  backend,    \* StateChanged calls in the order the backend receives them
  calls,      \* calls[t]: the calls task t has made, in program order
  creates,    \* the arguments of the client.Create calls made by restart goroutines
  execs       \* number of exec'd processes added so far

vars == <<ctr, created, registry, spc, sret, mon, si, cpc, cerr, wait, backend,
          calls, creates, execs>>

\* tasks: start() of lifecycle i, waitExit run m, restart goroutine of lifecycle i
StartTask(i)   == <<"start", i>>
MonTask(m)     == <<"waitExit", m>>
RestartTask(i) == <<"restart", i>>
Tasks == {StartTask(i) : i \in Lifecycles} \cup {MonTask(m) : m \in Monitors}
           \cup {RestartTask(i) : i \in Lifecycles}

\* a call: what was called, its timeout argument, and the error it returned
\* where the caller acts on it ("logged": the caller only logs the error, so
\* the call is recorded the same whether it failed or not)
Call(op, timeout, err) == [op |-> op, timeout |-> timeout, err |-> err]

\* the error value of a call that failed or not
Err(failed) == IF failed THEN "error" ELSE "nil"

\* ------------------------------------------------------------ container
IsServicing(options) ==
  \E k \in 1..Len(options) : options[k] = "ServicingTrue"

HasRestartManager(options) ==
  \E k \in 1..Len(options) : options[k] = "RestartManager"

NoContainer ==
  [containerID |-> "", options |-> <<>>, ociSpec |-> "",
   restartManager |-> FALSE, manualStopRequested |-> FALSE,
   restarting |-> FALSE, systemPid |-> 0]

\* what client.Create constructs before it calls start()
NewContainer(id, spec, options) ==
  [containerID |-> id, options |-> options, ociSpec |-> spec,
   restartManager |-> HasRestartManager(options),
   manualStopRequested |-> FALSE, restarting |-> FALSE, systemPid |-> 0]

NoStateInfo ==
  [State |-> "", ExitCode |-> 0, Pid |-> 0, ProcessID |-> "", UpdatePending |-> FALSE]

NoMonitor ==
  [pc |-> "idle", ctr |-> 0, pid |-> 0, processFriendlyName |-> "",
   isFirstProcessToStart |-> FALSE, exitCode |-> 0, err |-> "nil",
   manualStopRequested |-> FALSE, arg |-> NoStateInfo]

\* the host assigns process ids: the init process of lifecycle i gets i,
\* exec'd process j gets MaxLifecycles + j
InitPid(i) == i
ExecPid(j) == MaxLifecycles + j

Init ==
  /\ \E options \in OptionLists :
       ctr = [i \in Lifecycles |->
                IF i = 1 THEN NewContainer(ContainerID, OciSpec, options) ELSE NoContainer]
  /\ created = 1
  /\ registry = 0
  /\ spc = [i \in Lifecycles |-> IF i = 1 THEN "StartComputeSystem" ELSE "idle"]
  /\ sret = [i \in Lifecycles |-> "none"]
  /\ mon = [m \in Monitors |-> NoMonitor]
  /\ si = [m \in Monitors |-> NoStateInfo]
  /\ cpc = [i \in Lifecycles |-> "idle"]
  /\ cerr = [i \in Lifecycles |-> "none"]
  /\ wait = [i \in Lifecycles |-> "none"]
  /\ backend = <<>>
  /\ calls = [t \in Tasks |-> <<>>]
  /\ creates = <<>>
  /\ execs = 0

\* task t makes call op
Record(t, op, timeout, err) ==
  [calls EXCEPT ![t] = Append(@, Call(op, timeout, err))]

\* ---------------------------------------------------------------- start()
\* line 43: hcsshim.StartComputeSystem, then the options loop of line 48-49
start_StartComputeSystem(i) ==
  /\ spc[i] = "StartComputeSystem"
  /\ \E failed \in BOOLEAN :
       /\ calls' = Record(StartTask(i), "StartComputeSystem", NoTimeout, Err(failed))
       /\ IF failed
          THEN /\ spc' = [spc EXCEPT ![i] = "done"]
               /\ sret' = [sret EXCEPT ![i] = "StartComputeSystemError"]
          ELSE /\ spc' = [spc EXCEPT ![i] =
                            IF IsServicing(ctr[i].options)
                            THEN "ServicingShutdown" ELSE "CreateProcess"]
               /\ UNCHANGED sret
  /\ UNCHANGED <<ctr, created, registry, mon, si, cpc, cerr, wait, backend, creates, execs>>

\* line 54: servicing container, shutdown; line 62: return nil
start_ServicingShutdown(i) ==
  /\ spc[i] = "ServicingShutdown"
  /\ \E failed \in BOOLEAN :
       /\ calls' = Record(StartTask(i), "ShutdownComputeSystem",
                          ServicingShutdownTimeout, Err(failed))
       /\ IF failed
          THEN /\ spc' = [spc EXCEPT ![i] = "ServicingTerminate"]
               /\ sret' = [sret EXCEPT ![i] = "ShutdownError"]
          ELSE /\ spc' = [spc EXCEPT ![i] = "done"]
               /\ sret' = [sret EXCEPT ![i] = "nil"]
  /\ UNCHANGED <<ctr, created, registry, mon, si, cpc, cerr, wait, backend, creates, execs>>

\* start_ServicingTerminate that returns err2, the result of the termination
start_ServicingTerminate_ReturnErr2(i) ==
  /\ spc[i] = "ServicingTerminate"
  /\ \E failed \in BOOLEAN :
       /\ calls' = Record(StartTask(i), "TerminateComputeSystem",
                          ServicingTerminateTimeout, Err(failed))
       /\ sret' = [sret EXCEPT ![i] = IF failed THEN "TerminateError" ELSE "nil"]
  /\ spc' = [spc EXCEPT ![i] = "done"]
  /\ UNCHANGED <<ctr, created, registry, mon, si, cpc, cerr, wait, backend, creates, execs>>

\* line 57-60: terminate, log its error err2, and return err
start_ServicingTerminate(i) ==
  /\ spc[i] = "ServicingTerminate"
  /\ \E failed \in BOOLEAN :
       calls' = Record(StartTask(i), "TerminateComputeSystem",
                       ServicingTerminateTimeout, Err(failed))
  /\ spc' = [spc EXCEPT ![i] = "done"]
  /\ UNCHANGED <<ctr, created, registry, sret, mon, si, cpc, cerr, wait, backend, creates, execs>>

\* line 85-91 and 103-115: create the init process; on success save the pid
start_CreateProcessInComputeSystem(i) ==
  /\ spc[i] = "CreateProcess"
  /\ \E failed \in BOOLEAN :
       /\ calls' = Record(StartTask(i), "CreateProcessInComputeSystem", NoTimeout, Err(failed))
       /\ IF failed
          THEN /\ spc' = [spc EXCEPT ![i] = "CreateFailedTerminate"]
               /\ sret' = [sret EXCEPT ![i] = "CreateProcessError"]
               /\ UNCHANGED ctr
          ELSE /\ spc' = [spc EXCEPT ![i] = "GoWaitExit"]
               /\ ctr' = [ctr EXCEPT ![i].systemPid = InitPid(i)]
               /\ UNCHANGED sret
  /\ UNCHANGED <<created, registry, mon, si, cpc, cerr, wait, backend, creates, execs>>

\* start() returning the termination error err2 when TerminateComputeSystem
\* fails after a failed process creation
start_CreateFailedTerminate_ReturnErr2(i) ==
  /\ spc[i] = "CreateFailedTerminate"
  /\ \E failed \in BOOLEAN :
       /\ calls' = Record(StartTask(i), "TerminateComputeSystem", TimeoutInfinite, Err(failed))
       /\ sret' = [sret EXCEPT ![i] = IF failed THEN "TerminateError" ELSE @]
  /\ spc' = [spc EXCEPT ![i] = "done"]
  /\ UNCHANGED <<ctr, created, registry, mon, si, cpc, cerr, wait, backend, creates, execs>>

\* line 95-101: terminate the compute system, ignore err2, return err
start_CreateFailedTerminate(i) ==
  /\ spc[i] = "CreateFailedTerminate"
  /\ \E failed \in BOOLEAN :
       calls' = Record(StartTask(i), "TerminateComputeSystem", TimeoutInfinite, Err(failed))
  /\ spc' = [spc EXCEPT ![i] = "done"]
  /\ UNCHANGED <<ctr, created, registry, sret, mon, si, cpc, cerr, wait, backend, creates, execs>>

\* line 118: go ctr.waitExit(pid, InitFriendlyName, true)
start_GoWaitExit(i) ==
  /\ spc[i] = "GoWaitExit"
  /\ mon' = [mon EXCEPT ![InitMon(i)] =
               [NoMonitor EXCEPT !.pc = "WaitForProcess", !.ctr = i,
                                 !.pid = ctr[i].systemPid,
                                 !.processFriendlyName = InitFriendlyName,
                                 !.isFirstProcessToStart = TRUE]]
  /\ calls' = Record(StartTask(i), "go waitExit", NoTimeout, "nil")
  /\ spc' = [spc EXCEPT ![i] = "appendContainer"]
  /\ UNCHANGED <<ctr, created, registry, sret, si, cpc, cerr, wait, backend, creates, execs>>

\* line 120: ctr.client.appendContainer(ctr)
start_appendContainer(i) ==
  /\ spc[i] = "appendContainer"
  /\ registry' = i
  /\ calls' = Record(StartTask(i), "appendContainer", NoTimeout, "nil")
  /\ spc' = [spc EXCEPT ![i] = "AttachStreams"]
  /\ UNCHANGED <<ctr, created, sret, mon, si, cpc, cerr, wait, backend, creates, execs>>

\* start() terminating the compute system itself when AttachStreams fails,
\* as it does when process creation fails
start_AttachStreams_TerminateOnError(i) ==
  /\ spc[i] = "AttachStreams"
  /\ \E failed \in BOOLEAN :
       /\ calls' = Record(StartTask(i), "AttachStreams", NoTimeout, Err(failed))
       /\ IF failed
          THEN /\ spc' = [spc EXCEPT ![i] = "CreateFailedTerminate"]
               /\ sret' = [sret EXCEPT ![i] = "AttachStreamsError"]
          ELSE /\ spc' = [spc EXCEPT ![i] = "StateChanged"]
               /\ UNCHANGED sret
  /\ UNCHANGED <<ctr, created, registry, mon, si, cpc, cerr, wait, backend, creates, execs>>

\* line 122-125: backend.AttachStreams; its error is returned
start_AttachStreams(i) ==
  /\ spc[i] = "AttachStreams"
  /\ \E failed \in BOOLEAN :
       /\ calls' = Record(StartTask(i), "AttachStreams", NoTimeout, Err(failed))
       /\ IF failed
          THEN /\ spc' = [spc EXCEPT ![i] = "done"]
               /\ sret' = [sret EXCEPT ![i] = "AttachStreamsError"]
          ELSE /\ spc' = [spc EXCEPT ![i] = "StateChanged"]
               /\ UNCHANGED sret
  /\ UNCHANGED <<ctr, created, registry, mon, si, cpc, cerr, wait, backend, creates, execs>>

\* a StateChanged call as the backend receives it: the StateInfo passed by
\* value, the lifecycle it is about and the task that sent it
Notification(i, task, info) == [lc |-> i, by |-> task, info |-> info]

\* start() discarding the error StateChanged returns and returning nil
start_StateChanged_ReturnNil(i) ==
  /\ spc[i] = "StateChanged"
  /\ backend' = Append(backend,
        Notification(i, StartTask(i),
          [NoStateInfo EXCEPT !.State = StateStart, !.Pid = ctr[i].systemPid]))
  /\ \E failed \in BOOLEAN :
       /\ calls' = Record(StartTask(i), "StateChanged", NoTimeout, Err(failed))
       /\ sret' = [sret EXCEPT ![i] = "nil"]
  /\ spc' = [spc EXCEPT ![i] = "done"]
  /\ UNCHANGED <<ctr, created, registry, mon, si, cpc, cerr, wait, creates, execs>>

\* line 128-133: return backend.StateChanged(containerID, {State: StateStart, Pid: systemPid})
start_StateChanged(i) ==
  /\ spc[i] = "StateChanged"
  /\ backend' = Append(backend,
        Notification(i, StartTask(i),
          [NoStateInfo EXCEPT !.State = StateStart, !.Pid = ctr[i].systemPid]))
  /\ \E failed \in BOOLEAN :
       /\ calls' = Record(StartTask(i), "StateChanged", NoTimeout, Err(failed))
       /\ sret' = [sret EXCEPT ![i] = IF failed THEN "StateChangedError" ELSE "nil"]
  /\ spc' = [spc EXCEPT ![i] = "done"]
  /\ UNCHANGED <<ctr, created, registry, mon, si, cpc, cerr, wait, creates, execs>>

start(i) ==
  \/ start_StartComputeSystem(i)
  \/ start_ServicingShutdown(i)
  \/ start_ServicingTerminate(i)
  \/ start_CreateProcessInComputeSystem(i)
  \/ start_CreateFailedTerminate(i)
  \/ start_GoWaitExit(i)
  \/ start_appendContainer(i)
  \/ start_AttachStreams(i)
  \/ start_StateChanged(i)

\* -------------------------------------------------------------- waitExit()
\* si is captured by the restart goroutine, which writes si.State without
\* synchronisation while waitExit reads it (line 212 against 226 and 233).
\* A racing read observes the goroutine's write or the write before it.
StateInfoStates(m) ==
  {si[m].State} \cup
    (IF m \in Lifecycles /\ wait[m] # "none" /\ si[m].State = StateExit
     THEN {StateRestart} ELSE {})

\* waitExit_WaitForProcessInComputeSystem without the isFirstProcessToStart
\* test of line 166: every exit is treated as the init process's
waitExit_WaitForProcess_AlwaysInit(m) ==
  /\ mon[m].pc = "WaitForProcess"
  /\ \E exitCode \in ExitCodes :
       /\ calls' = Record(MonTask(m), "WaitForProcessInComputeSystem",
                          TimeoutInfinite, "logged")
       /\ si' = [si EXCEPT ![m] =
                   [State |-> StateExit,
                    ExitCode |-> exitCode,
                    Pid |-> mon[m].pid,
                    ProcessID |-> mon[m].processFriendlyName,
                    UpdatePending |-> FALSE]]
       /\ mon' = [mon EXCEPT ![m].exitCode = exitCode,
                             ![m].pc = "GetComputeSystemProperties"]
  /\ UNCHANGED <<ctr, created, registry, spc, sret, cpc, cerr, wait, backend, creates, execs>>

\* line 144-168: the wait returns, with or without an error; build si
waitExit_WaitForProcessInComputeSystem(m) ==
  /\ mon[m].pc = "WaitForProcess"
  /\ \E exitCode \in ExitCodes :
       /\ calls' = Record(MonTask(m), "WaitForProcessInComputeSystem",
                          TimeoutInfinite, "logged")
       /\ si' = [si EXCEPT ![m] =
                   [State |-> IF mon[m].isFirstProcessToStart
                              THEN StateExit ELSE StateExitProcess,
                    ExitCode |-> exitCode,
                    Pid |-> mon[m].pid,
                    ProcessID |-> mon[m].processFriendlyName,
                    UpdatePending |-> FALSE]]
       /\ mon' = [mon EXCEPT ![m].exitCode = exitCode,
                             ![m].pc = IF mon[m].isFirstProcessToStart
                                       THEN "GetComputeSystemProperties"
                                       ELSE "CopyStateInfo"]
  /\ UNCHANGED <<ctr, created, registry, spc, sret, cpc, cerr, wait, backend, creates, execs>>

\* line 172-178
waitExit_GetComputeSystemProperties(m) ==
  /\ mon[m].pc = "GetComputeSystemProperties"
  /\ \E failed \in BOOLEAN, AreUpdatesPending \in BOOLEAN :
       /\ failed => ~AreUpdatesPending
       /\ calls' = Record(MonTask(m), "GetComputeSystemProperties", NoTimeout, "logged")
       /\ si' = [si EXCEPT ![m].UpdatePending = IF failed THEN @ ELSE AreUpdatesPending]
  /\ mon' = [mon EXCEPT ![m].pc = "ShutdownComputeSystem"]
  /\ UNCHANGED <<ctr, created, registry, spc, sret, cpc, cerr, wait, backend, creates, execs>>

\* ShutdownNeedsTerminate without the ERROR_PATH_NOT_FOUND case of line 188
ShutdownNeedsTerminate_NoPathNotFound(err) ==
  /\ err # "nil"
  /\ \/ err = "nonHcs"
     \/ /\ err # "ERROR_SHUTDOWN_IN_PROGRESS"
        /\ err # "ErrorBadPathname"

\* line 185-188: the shutdown errors after which TerminateComputeSystem is called
ShutdownNeedsTerminate(err) ==
  /\ err # "nil"
  /\ \/ err = "nonHcs"
     \/ /\ err # "ERROR_SHUTDOWN_IN_PROGRESS"
        /\ err # "ErrorBadPathname"
        /\ err # "ERROR_PATH_NOT_FOUND"

\* line 183-198; err is the variable of the if statement of line 184, which
\* is gone once that statement is left
waitExit_ShutdownComputeSystem(m) ==
  /\ mon[m].pc = "ShutdownComputeSystem"
  /\ calls' = Record(MonTask(m), "ShutdownComputeSystem", WaitExitShutdownTimeout, "logged")
  /\ \E err \in ShutdownErrors \cup {"nil"} :
       mon' = [mon EXCEPT ![m].err = err,
                          ![m].pc = IF ShutdownNeedsTerminate(err)
                                    THEN "TerminateComputeSystem"
                                    ELSE "ShouldRestart"]
  /\ UNCHANGED <<ctr, created, registry, spc, sret, si, cpc, cerr, wait, backend, creates, execs>>

\* waitExit_TerminateComputeSystem that returns the termination error
waitExit_TerminateComputeSystem_ReturnOnError(m) ==
  /\ mon[m].pc = "TerminateComputeSystem"
  /\ calls' = Record(MonTask(m), "TerminateComputeSystem",
                     WaitExitShutdownTimeout, "logged")
  /\ \E failed \in BOOLEAN :
       mon' = [mon EXCEPT ![m].pc = IF failed THEN "done" ELSE "ShouldRestart"]
  /\ UNCHANGED <<ctr, created, registry, spc, sret, si, cpc, cerr, wait, backend, creates, execs>>

\* line 190-194
waitExit_TerminateComputeSystem(m) ==
  /\ mon[m].pc = "TerminateComputeSystem"
  /\ calls' = Record(MonTask(m), "TerminateComputeSystem",
                     WaitExitShutdownTimeout, "logged")
  /\ mon' = [mon EXCEPT ![m].pc = "ShouldRestart"]
  /\ UNCHANGED <<ctr, created, registry, spc, sret, si, cpc, cerr, wait, backend, creates, execs>>

\* what restartManager.ShouldRestart answers: an error, no restart, or a
\* restart (with a wait channel) as long as its retries are not used up
RestartsGranted == Cardinality({i \in Lifecycles : wait[i] # "none"})

RestartDecisions ==
  {"error", "false"} \cup (IF RestartsGranted < MaxRestarts THEN {"true"} ELSE {})

\* waitExit_ShouldRestart without the manualStopRequested test of line 200
waitExit_ShouldRestart_IgnoreManualStop(m) ==
  /\ mon[m].pc = "ShouldRestart"
  /\ LET c == mon[m].ctr IN
       /\ mon' = [mon EXCEPT ![m].pc = "CheckStateExit",
                             ![m].err = "nil",
                             ![m].manualStopRequested = ctr[c].manualStopRequested]
       /\ IF ctr[c].restartManager
          THEN \E decision \in RestartDecisions :
                 /\ calls' = Record(MonTask(m), "ShouldRestart", NoTimeout,
                                    IF decision = "error" THEN "error" ELSE "nil")
                 /\ IF decision = "true"
                    THEN /\ si' = [si EXCEPT ![m].State = StateRestart]
                         /\ ctr' = [ctr EXCEPT ![c].restarting = TRUE]
                         /\ wait' = [wait EXCEPT ![c] = "pending"]
                         /\ cpc' = [cpc EXCEPT ![c] = "Receive"]
                    ELSE UNCHANGED <<si, ctr, wait, cpc>>
          ELSE UNCHANGED <<calls, si, ctr, wait, cpc>>
  /\ UNCHANGED <<created, registry, spc, sret, cerr, backend, creates, execs>>

\* waitExit taking the restart branch when ShouldRestart returned an error
waitExit_ShouldRestart_RestartOnError(m) ==
  /\ mon[m].pc = "ShouldRestart"
  /\ LET c == mon[m].ctr IN
       /\ mon' = [mon EXCEPT ![m].pc = "CheckStateExit",
                             ![m].err = "nil",
                             ![m].manualStopRequested = ctr[c].manualStopRequested]
       /\ IF ~ctr[c].manualStopRequested /\ ctr[c].restartManager
          THEN \E decision \in RestartDecisions :
                 /\ calls' = Record(MonTask(m), "ShouldRestart", NoTimeout,
                                    IF decision = "error" THEN "error" ELSE "nil")
                 /\ IF decision = "true" \/ (decision = "error" /\ RestartsGranted < MaxRestarts)
                    THEN /\ si' = [si EXCEPT ![m].State = StateRestart]
                         /\ ctr' = [ctr EXCEPT ![c].restarting = TRUE]
                         /\ wait' = [wait EXCEPT ![c] = "pending"]
                         /\ cpc' = [cpc EXCEPT ![c] = "Receive"]
                    ELSE UNCHANGED <<si, ctr, wait, cpc>>
          ELSE UNCHANGED <<calls, si, ctr, wait, cpc>>
  /\ UNCHANGED <<created, registry, spc, sret, cerr, backend, creates, execs>>

\* line 200-222: the restart decision; a granted restart spawns the goroutine
\* of line 207, which starts by receiving from the wait channel
waitExit_ShouldRestart(m) ==
  /\ mon[m].pc = "ShouldRestart"
  /\ LET c == mon[m].ctr IN
       /\ mon' = [mon EXCEPT ![m].pc = "CheckStateExit",
                             ![m].err = "nil",
                             ![m].manualStopRequested = ctr[c].manualStopRequested]
       /\ IF ~ctr[c].manualStopRequested /\ ctr[c].restartManager
          THEN \E decision \in RestartDecisions :
                 /\ calls' = Record(MonTask(m), "ShouldRestart", NoTimeout,
                                    IF decision = "error" THEN "error" ELSE "nil")
                 /\ IF decision = "true"
                    THEN /\ si' = [si EXCEPT ![m].State = StateRestart]
                         /\ ctr' = [ctr EXCEPT ![c].restarting = TRUE]
                         /\ wait' = [wait EXCEPT ![c] = "pending"]
                         /\ cpc' = [cpc EXCEPT ![c] = "Receive"]
                    ELSE UNCHANGED <<si, ctr, wait, cpc>>
          ELSE UNCHANGED <<calls, si, ctr, wait, cpc>>
  /\ UNCHANGED <<created, registry, spc, sret, cerr, backend, creates, execs>>

\* waitExit_CheckStateExit with a return once a restart was granted
waitExit_CheckStateExit_ReturnOnRestart(m) ==
  /\ mon[m].pc = "CheckStateExit"
  /\ \E state \in StateInfoStates(m) :
       mon' = [mon EXCEPT ![m].pc = IF state = StateExit THEN "deleteContainer"
                                    ELSE IF state = StateRestart THEN "done"
                                    ELSE "CopyStateInfo"]
  /\ UNCHANGED <<ctr, created, registry, spc, sret, si, cpc, cerr, wait, backend,
                 calls, creates, execs>>

\* line 226: if si.State == StateExit
waitExit_CheckStateExit(m) ==
  /\ mon[m].pc = "CheckStateExit"
  /\ \E state \in StateInfoStates(m) :
       mon' = [mon EXCEPT ![m].pc = IF state = StateExit
                                    THEN "deleteContainer" ELSE "CopyStateInfo"]
  /\ UNCHANGED <<ctr, created, registry, spc, sret, si, cpc, cerr, wait, backend,
                 calls, creates, execs>>

\* waitExit going on to the notification without deregistering the container
waitExit_deleteContainer_Skip(m) ==
  /\ mon[m].pc = "deleteContainer"
  /\ mon' = [mon EXCEPT ![m].pc = "CopyStateInfo"]
  /\ UNCHANGED <<ctr, created, registry, spc, sret, si, cpc, cerr, wait, backend,
                 calls, creates, execs>>

\* line 227: ctr.client.deleteContainer(ctr.friendlyName)
waitExit_deleteContainer(m) ==
  /\ mon[m].pc = "deleteContainer"
  /\ registry' = 0
  /\ calls' = Record(MonTask(m), "deleteContainer", NoTimeout, "nil")
  /\ mon' = [mon EXCEPT ![m].pc = "CopyStateInfo"]
  /\ UNCHANGED <<ctr, created, spc, sret, si, cpc, cerr, wait, backend, creates, execs>>

\* line 233: si is passed by value, so it is read before the call is made
waitExit_CopyStateInfo(m) ==
  /\ mon[m].pc = "CopyStateInfo"
  /\ \E state \in StateInfoStates(m) :
       mon' = [mon EXCEPT ![m].arg = [si[m] EXCEPT !.State = state],
                          ![m].pc = "StateChanged"]
  /\ UNCHANGED <<ctr, created, registry, spc, sret, si, cpc, cerr, wait, backend,
                 calls, creates, execs>>

\* waitExit going back to wait on the process after it has notified Restart
waitExit_StateChanged_ReenterOnRestart(m) ==
  /\ mon[m].pc = "StateChanged"
  /\ backend' = Append(backend, Notification(mon[m].ctr, MonTask(m), mon[m].arg))
  /\ calls' = Record(MonTask(m), "StateChanged", NoTimeout, "logged")
  /\ mon' = [mon EXCEPT ![m].pc = IF mon[m].arg.State = StateRestart
                                  THEN "WaitForProcess" ELSE "done"]
  /\ UNCHANGED <<ctr, created, registry, spc, sret, si, cpc, cerr, wait, creates, execs>>

\* line 233-238: the backend receives the notification; its error is logged
waitExit_StateChanged(m) ==
  /\ mon[m].pc = "StateChanged"
  /\ backend' = Append(backend, Notification(mon[m].ctr, MonTask(m), mon[m].arg))
  /\ calls' = Record(MonTask(m), "StateChanged", NoTimeout, "logged")
  /\ mon' = [mon EXCEPT ![m].pc = "done"]
  /\ UNCHANGED <<ctr, created, registry, spc, sret, si, cpc, cerr, wait, creates, execs>>

waitExit(m) ==
  \/ waitExit_WaitForProcessInComputeSystem(m)
  \/ waitExit_GetComputeSystemProperties(m)
  \/ waitExit_ShutdownComputeSystem(m)
  \/ waitExit_TerminateComputeSystem(m)
  \/ waitExit_ShouldRestart(m)
  \/ waitExit_CheckStateExit(m)
  \/ waitExit_deleteContainer(m)
  \/ waitExit_CopyStateInfo(m)
  \/ waitExit_StateChanged(m)

\* the goroutine going on without blocking on the channel: an unresolved
\* channel reads as no error
restart_Receive_NoWait(i) ==
  /\ cpc[i] = "Receive"
  /\ cerr' = [cerr EXCEPT ![i] = IF wait[i] = "error" THEN "error" ELSE "nil"]
  /\ ctr' = [ctr EXCEPT ![i].restarting = FALSE]
  /\ calls' = Record(RestartTask(i), "<-wait", NoTimeout,
                     IF wait[i] = "error" THEN "error" ELSE "nil")
  /\ cpc' = [cpc EXCEPT ![i] = "deleteContainer"]
  /\ UNCHANGED <<created, registry, spc, sret, mon, si, wait, backend, creates, execs>>

\* ------------------------------------------- the goroutine of line 207-220
\* line 208-209: err := <-wait; ctr.restarting = false
restart_Receive(i) ==
  /\ cpc[i] = "Receive"
  /\ wait[i] \in {"nil", "error"}
  /\ cerr' = [cerr EXCEPT ![i] = wait[i]]
  /\ ctr' = [ctr EXCEPT ![i].restarting = FALSE]
  /\ calls' = Record(RestartTask(i), "<-wait", NoTimeout, wait[i])
  /\ cpc' = [cpc EXCEPT ![i] = "deleteContainer"]
  /\ UNCHANGED <<created, registry, spc, sret, mon, si, wait, backend, creates, execs>>

\* restart_deleteContainer that goes on to Create whatever the channel yielded
restart_deleteContainer_AlwaysCreate(i) ==
  /\ cpc[i] = "deleteContainer"
  /\ registry' = 0
  /\ calls' = Record(RestartTask(i), "deleteContainer", NoTimeout, "nil")
  /\ cpc' = [cpc EXCEPT ![i] = "Create"]
  /\ UNCHANGED <<ctr, created, spc, sret, mon, si, cerr, wait, backend, creates, execs>>

\* line 210: ctr.client.deleteContainer(ctr.friendlyName)
restart_deleteContainer(i) ==
  /\ cpc[i] = "deleteContainer"
  /\ registry' = 0
  /\ calls' = Record(RestartTask(i), "deleteContainer", NoTimeout, "nil")
  /\ cpc' = [cpc EXCEPT ![i] = IF cerr[i] # "nil" THEN "SetStateExit" ELSE "Create"]
  /\ UNCHANGED <<ctr, created, spc, sret, mon, si, cerr, wait, backend, creates, execs>>

\* line 212: si.State = StateExit
restart_SetStateExit(i) ==
  /\ cpc[i] = "SetStateExit"
  /\ si' = [si EXCEPT ![InitMon(i)].State = StateExit]
  /\ cpc' = [cpc EXCEPT ![i] = "StateChanged"]
  /\ UNCHANGED <<ctr, created, registry, spc, sret, mon, cerr, wait, backend,
                 calls, creates, execs>>

\* line 213-216
restart_StateChanged(i) ==
  /\ cpc[i] = "StateChanged"
  /\ backend' = Append(backend, Notification(i, RestartTask(i), si[InitMon(i)]))
  /\ calls' = Record(RestartTask(i), "StateChanged", NoTimeout, "logged")
  /\ cpc' = [cpc EXCEPT ![i] = "done"]
  /\ UNCHANGED <<ctr, created, registry, spc, sret, mon, si, cerr, wait, creates, execs>>

\* client.Create(containerID, spec, options...): constructs a container
\* object from its arguments and runs start() on it, unless it fails first.
Create(containerID, spec, options, failed) ==
  IF failed
  THEN UNCHANGED <<ctr, created, spc>>
  ELSE /\ created' = created + 1
       /\ ctr' = [ctr EXCEPT ![created + 1] = NewContainer(containerID, spec, options)]
       /\ spc' = [spc EXCEPT ![created + 1] = "StartComputeSystem"]

\* line 218: ctr.client.Create(ctr.containerID, ctr.ociSpec, ctr.options...)
restart_Create(i) ==
  /\ cpc[i] = "Create"
  /\ creates' = Append(creates,
        [lc |-> i, containerID |-> ctr[i].containerID,
         ociSpec |-> ctr[i].ociSpec, options |-> ctr[i].options])
  /\ calls' = Record(RestartTask(i), "Create", NoTimeout, "logged")
  /\ \E failed \in BOOLEAN :
       Create(ctr[i].containerID, ctr[i].ociSpec, ctr[i].options, failed)
  /\ cpc' = [cpc EXCEPT ![i] = "done"]
  /\ UNCHANGED <<registry, sret, mon, si, cerr, wait, backend, execs>>

restart(i) ==
  \/ restart_Receive(i)
  \/ restart_deleteContainer(i)
  \/ restart_SetStateExit(i)
  \/ restart_StateChanged(i)
  \/ restart_Create(i)

\* ------------------------------------------------------------ environment
\* the restart manager resolves the channel ShouldRestart returned
RestartManagerDone(i) ==
  /\ wait[i] = "pending"
  /\ \E result \in {"nil", "error"} : wait' = [wait EXCEPT ![i] = result]
  /\ UNCHANGED <<ctr, created, registry, spc, sret, mon, si, cpc, cerr, backend,
                 calls, creates, execs>>

\* an explicit stop request for the registered container sets the flag
RequestManualStop(i) ==
  /\ registry = i
  /\ ~ctr[i].manualStopRequested
  /\ ctr' = [ctr EXCEPT ![i].manualStopRequested = TRUE]
  /\ UNCHANGED <<created, registry, spc, sret, mon, si, cpc, cerr, wait, backend,
                 calls, creates, execs>>

\* a process exec'd in the registered container gets its own monitor:
\* go ctr.waitExit(pid, friendlyName, false)
AddProcess(i) ==
  /\ registry = i
  /\ execs < MaxExecs
  /\ execs' = execs + 1
  /\ mon' = [mon EXCEPT ![ExecMon(execs + 1)] =
               [NoMonitor EXCEPT !.pc = "WaitForProcess", !.ctr = i,
                                 !.pid = ExecPid(execs + 1),
                                 !.processFriendlyName = ExecFriendlyName,
                                 !.isFirstProcessToStart = FALSE]]
  /\ UNCHANGED <<ctr, created, registry, spc, sret, si, cpc, cerr, wait, backend,
                 calls, creates>>

\* The container's own lifecycle: start, the init-process monitor, the
\* restart goroutine and re-creation.
Next ==
  \/ \E i \in Lifecycles : start(i)
  \/ \E m \in Monitors : waitExit(m)
  \/ \E i \in Lifecycles : restart(i)
  \/ \E i \in Lifecycles : RestartManagerDone(i)
  \/ \E i \in Lifecycles : RequestManualStop(i)

Spec == Init /\ [][Next]_vars

\* The container with exec'd processes, each with its own monitor, over the
\* behaviours in which the restart manager's channel has not resolved yet.
NextExec ==
  \/ \E i \in Lifecycles : start(i)
  \/ \E m \in Monitors : waitExit(m)
  \/ \E i \in Lifecycles : RequestManualStop(i)
  \/ \E i \in Lifecycles : AddProcess(i)

SpecExec == Init /\ [][NextExec]_vars

\* what waitExit does once the host's wait has returned: every host and
\* backend call returns and the goroutine keeps being scheduled
waitExit_AfterWait(m) ==
  \/ waitExit_GetComputeSystemProperties(m)
  \/ waitExit_ShutdownComputeSystem(m)
  \/ waitExit_TerminateComputeSystem(m)
  \/ waitExit_ShouldRestart(m)
  \/ waitExit_CheckStateExit(m)
  \/ waitExit_deleteContainer(m)
  \/ waitExit_CopyStateInfo(m)
  \/ waitExit_StateChanged(m)

FairSpecExec == SpecExec /\ \A m \in Monitors : WF_vars(waitExit_AfterWait(m))

\* ------------------------------------------------------------ vocabulary
Count(t, op) == Cardinality({k \in 1..Len(calls[t]) : calls[t][k].op = op})

Called(t, op) == Count(t, op) > 0

\* task t called a and later b
CalledBefore(t, a, b) ==
  \E j, k \in 1..Len(calls[t]) : j < k /\ calls[t][j].op = a /\ calls[t][k].op = b

\* positions in backend of the notifications task t sent
Sent(t) == {k \in 1..Len(backend) : backend[k].by = t}

\* the states of the notifications task t sent
SentStates(t) == {backend[k].info.State : k \in Sent(t)}

\* positions in backend of what waitExit and the restart goroutine sent for
\* the init process of lifecycle i
Terminal(i) == Sent(MonTask(InitMon(i))) \cup Sent(RestartTask(i))

\* waitExit of lifecycle i has returned and its restart goroutine, if one was
\* spawned, has finished
MonitorFinished(i) ==
  /\ mon[InitMon(i)].pc = "done"
  /\ cpc[i] \in {"idle", "done"}

RestartGranted(i) == wait[i] # "none"

\* ------------------------------------------------------------------ C1
\* C1 as claimed: for every init-process exit the backend receives exactly
\* one terminal notification (Exit or Restart) in that lifecycle: never more
\* than one, and one once waitExit and its restart goroutine have finished.
C1_ExactlyOneTerminal ==
  \A i \in Lifecycles :
    /\ Cardinality(Terminal(i)) <= 1
    /\ MonitorFinished(i) => Cardinality(Terminal(i)) = 1

\* C1 amended: waitExit itself sends exactly one notification per init-process
\* exit, with state Exit or Restart; the restart goroutine sends one more,
\* with state Exit, exactly when the restart was granted and the wait channel
\* yielded an error.  So the lifecycle gets two notifications on a failed
\* restart and one on every other path, never zero.
C1_OnePlusFailedRestart ==
  \A i \in Lifecycles :
    /\ Cardinality(Sent(MonTask(InitMon(i)))) =
         (IF mon[InitMon(i)].pc = "done" THEN 1 ELSE 0)
    /\ SentStates(MonTask(InitMon(i))) \subseteq {StateExit, StateRestart}
    /\ Cardinality(Sent(RestartTask(i))) =
         (IF cpc[i] = "done" /\ RestartGranted(i) /\ cerr[i] = "error" THEN 1 ELSE 0)
    /\ SentStates(RestartTask(i)) \subseteq {StateExit}
    /\ MonitorFinished(i) =>
         Cardinality(Terminal(i)) = (IF RestartGranted(i) /\ cerr[i] = "error" THEN 2 ELSE 1)

\* a failed restart has run to its end, and so has a lifecycle without one
C1_Witness ==
  /\ MonitorFinished(1) /\ RestartGranted(1) /\ cerr[1] = "error"
  /\ Cardinality(Terminal(1)) = 2

\* ------------------------------------------------------------------ C2
\* start() of lifecycle i has returned without an error
StartSucceeded(i) == spc[i] = "done" /\ sret[i] = "nil"

\* C2 as claimed: for every Start that succeeds, exactly one Start
\* notification is delivered, and it precedes every terminal notification
\* (Exit, Restart) for the same process id.
C2_StartBeforeTerminal ==
  \A i \in Lifecycles :
    (StartSucceeded(i) /\ Called(StartTask(i), "CreateProcessInComputeSystem")) =>
      /\ Cardinality(Sent(StartTask(i))) = 1
      /\ \A k \in Terminal(i) :
           backend[k].info.Pid = ctr[i].systemPid =>
             \E j \in Sent(StartTask(i)) :
               /\ j < k
               /\ backend[j].info.State = StateStart
               /\ backend[j].info.Pid = backend[k].info.Pid

\* ------------------------------------------------------------------ C3
\* C3 as claimed: with no restart manager configured, the terminal
\* notification has state Exit and the exit code the host wait reported, and
\* once start() and waitExit have both finished the container is not in the
\* registry.
C3_ExitAndDeregistered ==
  \A i \in Lifecycles :
    (~ctr[i].restartManager /\ spc[i] = "done" /\ mon[InitMon(i)].pc = "done") =>
      /\ \A k \in Terminal(i) :
           /\ backend[k].info.State = StateExit
           /\ backend[k].info.ExitCode = mon[InitMon(i)].exitCode
      /\ Cardinality(Terminal(i)) = 1
      /\ registry = 0

\* ------------------------------------------------------------------ C4
\* the last notification the backend received about the exit of the init
\* process of lifecycle i
LastObserved(i) ==
  backend[CHOOSE k \in Terminal(i) : \A j \in Terminal(i) : j <= k]

\* C4 as claimed: after a granted restart whose wait channel yields an error,
\* the last state the backend observes for the lifecycle is Exit and the
\* container is out of the registry.
C4_FailedRestartEndsInExit ==
  \A i \in Lifecycles :
    (spc[i] = "done" /\ MonitorFinished(i) /\ RestartGranted(i) /\ cerr[i] = "error") =>
      /\ LastObserved(i).info.State = StateExit
      /\ registry = 0

\* ------------------------------------------------------------------ C5
\* the Create calls made for lifecycle i
CreatesOf(i) == {k \in 1..Len(creates) : creates[k].lc = i}

\* C5: after a granted restart whose wait channel yields success, waitExit's
\* notification has state Restart and client.Create is called exactly once,
\* with the container's id, spec and options; Create is never called before
\* the channel has resolved, nor when it yields an error, nor when no
\* restart was granted.
C5_RestartThenCreateOnce ==
  \A i \in Lifecycles :
    /\ Cardinality(CreatesOf(i)) = Count(RestartTask(i), "Create")
    /\ Cardinality(CreatesOf(i)) <= 1
    /\ CreatesOf(i) # {} =>
         /\ RestartGranted(i)
         /\ wait[i] = "nil"
         /\ CalledBefore(RestartTask(i), "<-wait", "Create")
    /\ (RestartGranted(i) /\ wait[i] = "nil" /\ cpc[i] = "done") =>
         /\ Cardinality(CreatesOf(i)) = 1
         /\ \A k \in CreatesOf(i) :
              /\ creates[k].containerID = ContainerID
              /\ creates[k].ociSpec = OciSpec
              /\ creates[k].options = ctr[1].options
    /\ (RestartGranted(i) /\ wait[i] = "nil" /\ mon[InitMon(i)].pc = "done") =>
         SentStates(MonTask(InitMon(i))) = {StateRestart}
    /\ (i > 1 /\ i <= created) =>
         /\ ctr[i].containerID = ContainerID
         /\ ctr[i].ociSpec = OciSpec
         /\ ctr[i].options = ctr[1].options

\* the restart succeeded: Restart was sent and Create was called
C5_Witness ==
  /\ RestartGranted(1) /\ wait[1] = "nil" /\ cpc[1] = "done"
  /\ mon[InitMon(1)].pc = "done"
  /\ Cardinality(CreatesOf(1)) = 1
  /\ created = 2

\* ------------------------------------------------------------------ C6
\* waitExit of lifecycle i is past the restart decision of line 200
Classified(i) ==
  mon[InitMon(i)].pc \in {"CheckStateExit", "deleteContainer", "CopyStateInfo",
                          "StateChanged", "done"}

\* C6: if manualStopRequested was true when waitExit read it for the restart
\* decision, ShouldRestart is not called, no restart goroutine exists, Create
\* is not called and the notification has state Exit, with or without a
\* restart manager.
C6_ManualStopSuppressesRestart ==
  \A i \in Lifecycles :
    (Classified(i) /\ mon[InitMon(i)].manualStopRequested) =>
      /\ ~Called(MonTask(InitMon(i)), "ShouldRestart")
      /\ ~RestartGranted(i)
      /\ cpc[i] = "idle"
      /\ CreatesOf(i) = {}
      /\ ~ctr[i].restarting
      /\ SentStates(MonTask(InitMon(i))) \subseteq {StateExit}
      /\ mon[InitMon(i)].pc = "done" => SentStates(MonTask(InitMon(i))) = {StateExit}

\* a container with a restart manager was stopped manually and has exited
C6_Witness ==
  /\ ctr[1].restartManager
  /\ mon[InitMon(1)].manualStopRequested
  /\ mon[InitMon(1)].pc = "done"
  /\ SentStates(MonTask(InitMon(1))) = {StateExit}

\* ------------------------------------------------------------------ C7
ExecMonitors == {ExecMon(j) : j \in Execs}

\* C7: waitExit for an exec'd process calls nothing but the host wait and
\* the backend, sends a single notification, with state ExitProcess and the
\* process's own pid, and none of its steps changes the registry or a
\* container's restarting flag.
C7_ExecExitOnlyNotifies ==
  /\ [](\A m \in ExecMonitors :
          /\ \A k \in 1..Len(calls[MonTask(m)]) :
               calls[MonTask(m)][k].op \in {"WaitForProcessInComputeSystem", "StateChanged"}
          /\ Cardinality(Sent(MonTask(m))) = (IF mon[m].pc = "done" THEN 1 ELSE 0)
          /\ \A k \in Sent(MonTask(m)) :
               /\ backend[k].info.State = StateExitProcess
               /\ backend[k].info.Pid = mon[m].pid)
  /\ [][\A m \in ExecMonitors :
          waitExit(m) =>
            /\ registry' = registry
            /\ \A i \in Lifecycles : ctr'[i].restarting = ctr[i].restarting
            /\ wait' = wait /\ cpc' = cpc]_vars

\* an exec'd process of a registered container that is restarting has exited
\* and its monitor has notified the backend
C7_Witness ==
  \E m \in ExecMonitors :
    /\ mon[m].pc = "done"
    /\ SentStates(MonTask(m)) = {StateExitProcess}
    /\ registry = mon[m].ctr
    /\ ctr[mon[m].ctr].restarting

\* ------------------------------------------------------------------ C8
\* the shutdown errors after which no termination is attempted
WhitelistedShutdownErrors ==
  {"ERROR_SHUTDOWN_IN_PROGRESS", "ErrorBadPathname", "ERROR_PATH_NOT_FOUND"}

\* C8: waitExit for the init process calls TerminateComputeSystem exactly
\* when ShutdownComputeSystem failed with an error that is not whitelisted:
\* after such an error the next call is the termination, after success or a
\* whitelisted error (shutdown already in progress among them) the flow is at
\* the restart decision with no termination made; a termination is made at
\* most once, after the shutdown and before the backend is notified.
C8_TerminateIffShutdownFailed ==
  \A i \in Lifecycles :
    LET m == InitMon(i)
        t == MonTask(m)
        whitelisted == mon[m].err = "nil" \/ mon[m].err \in WhitelistedShutdownErrors
    IN  /\ mon[m].pc = "TerminateComputeSystem" =>
             ~whitelisted /\ ~Called(t, "TerminateComputeSystem")
        /\ mon[m].pc = "ShouldRestart" =>
             /\ Called(t, "ShutdownComputeSystem")
             /\ Called(t, "TerminateComputeSystem") <=> ~whitelisted
             /\ ~Called(t, "StateChanged")
        /\ Count(t, "TerminateComputeSystem") <= 1
        /\ Called(t, "TerminateComputeSystem") =>
             CalledBefore(t, "ShutdownComputeSystem", "TerminateComputeSystem")
        /\ (Called(t, "TerminateComputeSystem") /\ Called(t, "StateChanged")) =>
             CalledBefore(t, "TerminateComputeSystem", "StateChanged")
        /\ mon[m].pc = "done" => Called(t, "ShutdownComputeSystem")

\* a shutdown that was already in progress: no termination, and the flow is
\* at the restart decision
C8_Witness ==
  /\ mon[InitMon(1)].pc = "ShouldRestart"
  /\ mon[InitMon(1)].err = "ERROR_SHUTDOWN_IN_PROGRESS"
  /\ ~Called(MonTask(InitMon(1)), "TerminateComputeSystem")

\* ------------------------------------------------------------------ C9
\* some option of the container of lifecycle i marks servicing mode
ServicingMode(i) ==
  \E k \in 1..Len(ctr[i].options) : ctr[i].options[k] = "ServicingTrue"

\* what the servicing shutdown of start() of lifecycle i returned
ServicingShutdownResult(i) ==
  {calls[StartTask(i)][k].err :
     k \in {j \in 1..Len(calls[StartTask(i)]) :
              calls[StartTask(i)][j].op = "ShutdownComputeSystem"}}

\* C9: in servicing mode start() creates no process, launches no waitExit,
\* does not register the container, attaches no streams and does not notify
\* the backend; when the shutdown fails it calls TerminateComputeSystem and
\* returns the shutdown's error whether the termination fails or not, and
\* when the shutdown succeeds it terminates nothing and returns no error.
C9_ServicingStart ==
  \A i \in Lifecycles :
    (i <= created /\ ServicingMode(i)) =>
      LET t == StartTask(i) IN
        /\ ~Called(t, "CreateProcessInComputeSystem")
        /\ ~Called(t, "go waitExit")
        /\ mon[InitMon(i)].pc = "idle"
        /\ ~Called(t, "appendContainer")
        /\ registry # i
        /\ ~Called(t, "AttachStreams")
        /\ ~Called(t, "StateChanged")
        /\ Sent(t) = {}
        /\ (spc[i] = "done" /\ ServicingShutdownResult(i) = {"error"}) =>
             /\ CalledBefore(t, "ShutdownComputeSystem", "TerminateComputeSystem")
             /\ Count(t, "TerminateComputeSystem") = 1
             /\ sret[i] = "ShutdownError"
        /\ (spc[i] = "done" /\ ServicingShutdownResult(i) = {"nil"}) =>
             /\ ~Called(t, "TerminateComputeSystem")
             /\ sret[i] = "nil"
        /\ spc[i] = "ServicingTerminate" => ServicingShutdownResult(i) = {"error"}

\* a servicing start whose shutdown failed and whose termination succeeded
C9_Witness ==
  /\ ServicingMode(1) /\ spc[1] = "done"
  /\ ServicingShutdownResult(1) = {"error"}
  /\ \E k \in 1..Len(calls[StartTask(1)]) :
       /\ calls[StartTask(1)][k].op = "TerminateComputeSystem"
       /\ calls[StartTask(1)][k].err = "nil"
  /\ sret[1] = "ShutdownError"

\* ----------------------------------------------------------------- C10
\* C10: once the host wait has returned for a monitored process, waitExit
\* eventually calls the backend's StateChanged, whatever the property query,
\* the shutdown, the termination and the restart decision return.
C10_WaitReturnLeadsToNotification ==
  \A m \in Monitors :
    (mon[m].pc \notin {"idle", "WaitForProcess"}) ~> Called(MonTask(m), "StateChanged")

\* the shutdown failed, the container was terminated, the restart decision
\* failed, and the exit was still notified
C10_Witness ==
  /\ Called(MonTask(InitMon(1)), "TerminateComputeSystem")
  /\ \E k \in 1..Len(calls[MonTask(InitMon(1))]) :
       /\ calls[MonTask(InitMon(1))][k].op = "ShouldRestart"
       /\ calls[MonTask(InitMon(1))][k].err = "error"
  /\ Called(MonTask(InitMon(1)), "StateChanged")

\* ------------------------------------------------------------------ C11
\* process creation failed in start() of lifecycle i
CreateProcessFailed(i) ==
  \E k \in 1..Len(calls[StartTask(i)]) :
    /\ calls[StartTask(i)][k].op = "CreateProcessInComputeSystem"
    /\ calls[StartTask(i)][k].err = "error"

\* C11: when process creation fails in start(), no waitExit is launched, the
\* container is not added to the registry, and neither AttachStreams nor
\* StateChanged is called; once start() has returned it has called
\* TerminateComputeSystem exactly once, after the failed creation, and it
\* returns the creation error whether that termination failed or not.
C11_CreateFailureTerminatesAndReturns ==
  \A i \in Lifecycles :
    CreateProcessFailed(i) =>
      /\ ~Called(StartTask(i), "go waitExit")
      /\ mon[InitMon(i)].pc = "idle"
      /\ ~Called(StartTask(i), "appendContainer")
      /\ registry # i
      /\ ~Called(StartTask(i), "AttachStreams")
      /\ ~Called(StartTask(i), "StateChanged")
      /\ Sent(StartTask(i)) = {}
      /\ Sent(MonTask(InitMon(i))) = {}
      /\ sret[i] = "CreateProcessError"
      /\ spc[i] = "done" =>
           /\ Count(StartTask(i), "TerminateComputeSystem") = 1
           /\ CalledBefore(StartTask(i), "CreateProcessInComputeSystem",
                           "TerminateComputeSystem")

\* start() returned after a failed creation whose termination failed too
C11_Witness ==
  \E i \in Lifecycles :
    /\ CreateProcessFailed(i)
    /\ spc[i] = "done"
    /\ \E k \in 1..Len(calls[StartTask(i)]) :
         /\ calls[StartTask(i)][k].op = "TerminateComputeSystem"
         /\ calls[StartTask(i)][k].err = "error"

\* ------------------------------------------------------------------ C12
\* start() of lifecycle i has returned after AttachStreams succeeded (which
\* implies that process creation succeeded)
AttachedAndReturned(i) ==
  /\ spc[i] = "done"
  /\ \E k \in 1..Len(calls[StartTask(i)]) :
       /\ calls[StartTask(i)][k].op = "AttachStreams"
       /\ calls[StartTask(i)][k].err = "nil"

\* the error of the StateChanged call start() made
StartStateChangedErrors(i) ==
  {calls[StartTask(i)][k].err :
     k \in {j \in 1..Len(calls[StartTask(i)]) : calls[StartTask(i)][j].op = "StateChanged"}}

Deregistered(i) ==
  \/ Called(MonTask(InitMon(i)), "deleteContainer")
  \/ Called(RestartTask(i), "deleteContainer")

\* C13 as claimed: on a restart path the container is deregistered when the
\* restart decision is made, before the restart manager's completion channel
\* resolves: whenever the channel has resolved, deleteContainer has already
\* been called.
C13_DeregisteredBeforeChannelResolves ==
  \A i \in Lifecycles :
    wait[i] \in {"nil", "error"} => Deregistered(i)

\* C13 amended: on a restart path nobody calls deleteContainer while the
\* completion channel is pending; the restart goroutine calls it once, after
\* it has received from the channel and before it calls Create or sends the
\* downgraded Exit notification.
C13_DeregisteredAfterChannelResolves ==
  \A i \in Lifecycles :
    /\ wait[i] = "pending" => ~Deregistered(i)
    /\ Called(RestartTask(i), "deleteContainer") =>
         /\ wait[i] \in {"nil", "error"}
         /\ CalledBefore(RestartTask(i), "<-wait", "deleteContainer")
         /\ Count(RestartTask(i), "deleteContainer") = 1
    /\ Called(RestartTask(i), "Create") =>
         CalledBefore(RestartTask(i), "deleteContainer", "Create")
    /\ Called(RestartTask(i), "StateChanged") =>
         CalledBefore(RestartTask(i), "deleteContainer", "StateChanged")

\* the goroutine deregistered the container after the channel resolved and
\* went on to Create
C13_Witness ==
  \E i \in Lifecycles :
    /\ wait[i] = "nil"
    /\ CalledBefore(RestartTask(i), "<-wait", "deleteContainer")
    /\ CalledBefore(RestartTask(i), "deleteContainer", "Create")

\* ------------------------------------------------------------------ C14
\* the init monitors blocked in WaitForProcessInComputeSystem
WaitingInitMonitors == {i \in Lifecycles : mon[InitMon(i)].pc = "WaitForProcess"}

\* waitExit of lifecycle i is past the restart decision of line 200-222
PastRestartDecision(i) ==
  mon[InitMon(i)].pc \in {"CheckStateExit", "deleteContainer", "CopyStateInfo",
                          "StateChanged", "done"}

\* C14: at any time at most one waitExit is monitoring (blocked in the wait
\* on) the init process of the container; each lifecycle's start() launches
\* at most one, a waitExit exists only if a start() launched it, and by the
\* time the re-created lifecycle launches its waitExit the previous one has
\* returned from its wait and made its restart decision, even if it has not
\* sent its notification yet.
C14_AtMostOneInitMonitor ==
  /\ Cardinality(WaitingInitMonitors) <= 1
  /\ \A i \in Lifecycles :
       /\ Count(StartTask(i), "go waitExit") <= 1
       /\ Count(MonTask(InitMon(i)), "WaitForProcessInComputeSystem") <= 1
       /\ mon[InitMon(i)].pc # "idle" => Called(StartTask(i), "go waitExit")
  /\ \A i, j \in Lifecycles :
       (i < j /\ mon[InitMon(j)].pc # "idle") => PastRestartDecision(i)

\* the re-created lifecycle's waitExit is waiting while the previous
\* lifecycle's waitExit has not sent its notification yet
C14_Witness ==
  \E i, j \in Lifecycles :
    /\ i < j
    /\ mon[InitMon(j)].pc = "WaitForProcess"
    /\ mon[InitMon(i)].pc \in {"CheckStateExit", "CopyStateInfo", "StateChanged"}

\* ------------------------------------------------------------------ C15
\* the timeouts the claim states, in milliseconds
ClaimedGracefulTimeout == 5 * 60 * 1000
ClaimedForcedTimeout == 1 * 60 * 1000
ClaimedServicingTimeout == 4 * 60 * 1000

\* the shutdown and termination calls task t issued against the host
HostStopCalls(t) ==
  {k \in 1..Len(calls[t]) :
     calls[t][k].op \in {"ShutdownComputeSystem", "TerminateComputeSystem"}}

\* C15 as claimed: every shutdown and termination call issued by start() or
\* waitExit carries a finite timeout: 5 minutes for the graceful shutdown in
\* waitExit, 1 minute for every forced termination, 4 minutes for the
\* servicing-path shutdown in start(); none uses the infinite timeout.
C15_FiniteTimeouts ==
  \A i \in Lifecycles :
    /\ \A k \in HostStopCalls(StartTask(i)) :
         /\ calls[StartTask(i)][k].timeout # TimeoutInfinite
         /\ calls[StartTask(i)][k].op = "ShutdownComputeSystem" =>
              calls[StartTask(i)][k].timeout = ClaimedServicingTimeout
         /\ calls[StartTask(i)][k].op = "TerminateComputeSystem" =>
              calls[StartTask(i)][k].timeout = ClaimedForcedTimeout
    /\ \A k \in HostStopCalls(MonTask(InitMon(i))) :
         /\ calls[MonTask(InitMon(i))][k].timeout # TimeoutInfinite
         /\ calls[MonTask(InitMon(i))][k].op = "ShutdownComputeSystem" =>
              calls[MonTask(InitMon(i))][k].timeout = ClaimedGracefulTimeout
         /\ calls[MonTask(InitMon(i))][k].op = "TerminateComputeSystem" =>
              calls[MonTask(InitMon(i))][k].timeout = ClaimedForcedTimeout

\* ------------------------------------------------------------------ C16
\* AttachStreams failed in start() of lifecycle i
AttachStreamsFailed(i) ==
  \E k \in 1..Len(calls[StartTask(i)]) :
    /\ calls[StartTask(i)][k].op = "AttachStreams"
    /\ calls[StartTask(i)][k].err = "error"

\* what start() has done when AttachStreams failed: it has returned the
\* attachment error, sent nothing to the backend, stopped nothing itself, and
\* the waitExit it launched before is there
AttachFailureLeavesMonitor(i) ==
  /\ spc[i] = "done"
  /\ sret[i] = "AttachStreamsError"
  /\ Sent(StartTask(i)) = {}
  /\ ~Called(StartTask(i), "StateChanged")
  /\ HostStopCalls(StartTask(i)) = {}
  /\ CalledBefore(StartTask(i), "CreateProcessInComputeSystem", "go waitExit")
  /\ CalledBefore(StartTask(i), "go waitExit", "AttachStreams")
  /\ mon[InitMon(i)].pc # "idle"
  /\ SentStates(MonTask(InitMon(i))) \subseteq {StateExit, StateRestart}

\* C16: if AttachStreams fails after a successful process creation, start()
\* returns the attachment error, emits no Start, and stops nothing itself; the
\* waitExit launched before still shuts the compute system down and sends
\* its Exit or Restart notification once the process has exited.
C16_AttachFailureMonitorStillNotifies ==
  /\ [](\A i \in Lifecycles : AttachStreamsFailed(i) => AttachFailureLeavesMonitor(i))
  /\ \A i \in Lifecycles :
       (AttachStreamsFailed(i) /\ Called(MonTask(InitMon(i)), "WaitForProcessInComputeSystem"))
         ~> (/\ Called(MonTask(InitMon(i)), "ShutdownComputeSystem")
             /\ Cardinality(Sent(MonTask(InitMon(i)))) = 1
             /\ mon[InitMon(i)].pc = "done")

\* attachment failed, the process exited later, and waitExit shut the compute
\* system down and notified
C16_Witness ==
  \E i \in Lifecycles :
    /\ AttachStreamsFailed(i)
    /\ Called(MonTask(InitMon(i)), "ShutdownComputeSystem")
    /\ Cardinality(Sent(MonTask(InitMon(i)))) = 1
    /\ mon[InitMon(i)].pc = "done"

\* ------------------------------------------------------------------ C17
\* C17: in waitExit for the init process, when no restart is granted, the
\* deleteContainer call precedes the StateChanged call, whose state is Exit;
\* in the restart goroutine, when the channel yielded an error, the
\* deleteContainer call precedes the StateChanged call of the downgraded Exit.
C17_DeregisterBeforeNotify ==
  \A i \in Lifecycles :
    /\ (~RestartGranted(i) /\ mon[InitMon(i)].pc \in {"StateChanged", "done"}) =>
         /\ Called(MonTask(InitMon(i)), "deleteContainer")
         /\ ~CalledBefore(MonTask(InitMon(i)), "StateChanged", "deleteContainer")
         /\ SentStates(MonTask(InitMon(i))) \subseteq {StateExit}
    /\ (~RestartGranted(i) /\ Called(MonTask(InitMon(i)), "StateChanged")) =>
         CalledBefore(MonTask(InitMon(i)), "deleteContainer", "StateChanged")
    /\ cpc[i] \in {"SetStateExit", "StateChanged"} =>
         Called(RestartTask(i), "deleteContainer")
    /\ Called(RestartTask(i), "StateChanged") =>
         /\ CalledBefore(RestartTask(i), "deleteContainer", "StateChanged")
         /\ ~CalledBefore(RestartTask(i), "StateChanged", "deleteContainer")
         /\ SentStates(RestartTask(i)) = {StateExit}

\* the restart manager declined, and waitExit deregistered the container and
\* then notified Exit
C17_Witness ==
  \E i \in Lifecycles :
    /\ ~RestartGranted(i)
    /\ Called(MonTask(InitMon(i)), "ShouldRestart")
    /\ CalledBefore(MonTask(InitMon(i)), "deleteContainer", "StateChanged")
    /\ SentStates(MonTask(InitMon(i))) = {StateExit}

\* ------------------------------------------------------------------ C18
\* ShouldRestart returned an error in waitExit of lifecycle i
ShouldRestartFailed(i) ==
  \E k \in 1..Len(calls[MonTask(InitMon(i))]) :
    /\ calls[MonTask(InitMon(i))][k].op = "ShouldRestart"
    /\ calls[MonTask(InitMon(i))][k].err = "error"

\* C18: if ShouldRestart returns an error, the restarting flag stays false,
\* no restart goroutine is spawned, Create is never called, and once waitExit
\* has returned it has called deleteContainer and then sent exactly one
\* notification, with state Exit.
C18_DecisionErrorMeansNoRestart ==
  \A i \in Lifecycles :
    ShouldRestartFailed(i) =>
      /\ ~ctr[i].restarting
      /\ wait[i] = "none"
      /\ cpc[i] = "idle"
      /\ calls[RestartTask(i)] = <<>>
      /\ CreatesOf(i) = {}
      /\ si[InitMon(i)].State = StateExit
      /\ SentStates(MonTask(InitMon(i))) \subseteq {StateExit}
      /\ mon[InitMon(i)].pc = "done" =>
           /\ CalledBefore(MonTask(InitMon(i)), "deleteContainer", "StateChanged")
           /\ Cardinality(Sent(MonTask(InitMon(i)))) = 1
           /\ SentStates(MonTask(InitMon(i))) = {StateExit}

\* ShouldRestart failed and waitExit has deregistered the container and
\* notified Exit
C18_Witness ==
  \E i \in Lifecycles :
    /\ ShouldRestartFailed(i)
    /\ mon[InitMon(i)].pc = "done"
    /\ Called(MonTask(InitMon(i)), "deleteContainer")
    /\ SentStates(MonTask(InitMon(i))) = {StateExit}

\* ------------------------------------------------------------------ C19
\* the deleteContainer calls made for lifecycle i by waitExit and by the
\* restart goroutine
DeleteContainerCalls(i) ==
  Count(MonTask(InitMon(i)), "deleteContainer") + Count(RestartTask(i), "deleteContainer")

\* C19 as claimed: when a restart is granted, the notification waitExit's
\* main flow sends carries state Restart and the main flow never calls
\* deleteContainer, whatever the restart goroutine has written to the shared
\* StateInfo by then; deleteContainer is called exactly once per lifecycle.
C19_RestartNotificationStable ==
  \A i \in Lifecycles :
    /\ RestartGranted(i) =>
         /\ SentStates(MonTask(InitMon(i))) \subseteq {StateRestart}
         /\ ~Called(MonTask(InitMon(i)), "deleteContainer")
    /\ DeleteContainerCalls(i) <= 1
    /\ (MonitorFinished(i) /\ mon[InitMon(i)].pc = "done") => DeleteContainerCalls(i) = 1

\* ------------------------------------------------------------------ C20
\* C20 as claimed: when a restart is granted and succeeds, the Restart
\* notification of the exiting lifecycle reaches the backend before the
\* Start notification of the re-created lifecycle.
C20_RestartBeforeNextStart ==
  \A i \in Lifecycles :
    \A k \in CreatesOf(i) :
      \A s \in 1..Len(backend) :
        (backend[s].lc > i /\ backend[s].info.State = StateStart) =>
          \E r \in Sent(MonTask(InitMon(i))) :
            r < s /\ backend[r].info.State = StateRestart

====
